---- MODULE Spec2Model ----
(***************************************************************************)
(* State-machine model of the bert_reader decoders.                        *)
(*                                                                         *)
(* A byte buffer is a sequence of integers 0..255.  A Python str is a      *)
(* sequence of code points, except hex text, which is a sequence of        *)
(* one-character strings ("0".."f" and " ").  Every call result is a       *)
(* record [exc, val]: exc = "none" for a normal return, otherwise the name *)
(* of the Python exception the call raises.                                *)
(***************************************************************************)
EXTENDS Integers, Sequences, FiniteSets, TLC

VARIABLES
    pc,      \* "idle" | "loop" (inside the for loop of get_bert_table_data) | "done"
    fn,      \* name of the function that was called last
    arg,     \* its arguments, as a record
    ret,     \* its result [exc, val] (meaningful when pc = "done")
    bin,     \* bert_table_data_binary: the slice the framing loop still has to decode
    i,       \* number of completed iterations of the framing loop
    table    \* bert_table_data: the dict get_bert_table_data is building

vars == <<pc, fn, arg, ret, bin, i, table>>

\* ------------------------------------------------------------------ bounds
\* Largest number of entries laid out in a generated status-block buffer.
MaxEntries == 2
\* Largest number of bytes appended after the 48-byte BERT header.
MaxPad == 1

\* ---------------------------------------------------------- Python basics
Min(a, b) == IF a < b THEN a ELSE b
Max(a, b) == IF a > b THEN a ELSE b

Ok(v) == [exc |-> "none", val |-> v]
Raise(e) == [exc |-> e, val |-> <<>>]

\* Python's clamping of one slice bound against a sequence of length n.
SliceIndex(k, n) == IF k < 0 THEN Max(k + n, 0) ELSE Min(k, n)

\* s[a:b]
PySlice(s, a, b) ==
    LET lo == SliceIndex(a, Len(s))
        hi == SliceIndex(b, Len(s))
    IN  IF lo < hi THEN SubSeq(s, lo + 1, hi) ELSE <<>>

\* s[a:]
PySliceFrom(s, a) == PySlice(s, a, Len(s))

Reverse(s) == [k \in 1..Len(s) |-> s[Len(s) + 1 - k]]

RECURSIVE Flatten(_)
Flatten(ss) == IF ss = <<>> THEN <<>> ELSE Head(ss) \o Flatten(Tail(ss))

HexChars == <<"0", "1", "2", "3", "4", "5", "6", "7",
              "8", "9", "a", "b", "c", "d", "e", "f">>

\* bytes.hex(): two lowercase digits per byte, no separator.
BytesHex(b) ==
    Flatten([k \in 1..Len(b) |-> <<HexChars[(b[k] \div 16) + 1], HexChars[(b[k] % 16) + 1]>>])

\* ' '.join(a+b for a,b in zip(hex_data[::2], hex_data[1::2]))
JoinPairs(h) ==
    LET n == Len(h) \div 2
    IN  Flatten([k \in 1..n |->
            IF k = 1 THEN <<h[1], h[2]>> ELSE <<" ", h[2 * k - 1], h[2 * k]>>])

\* struct.unpack('i', b): little-endian two's-complement 32-bit; needs exactly 4 bytes.
StructUnpack_i(b) ==
    IF Len(b) # 4 THEN Raise("struct.error")
    ELSE LET low == b[1] + 256 * b[2] + 65536 * b[3]
             top == IF b[4] >= 128 THEN b[4] - 256 ELSE b[4]
         IN  Ok(top * 16777216 + low)

\* struct.unpack('B', b): one unsigned byte; needs exactly 1 byte.
StructUnpack_B(b) ==
    IF Len(b) # 1 THEN Raise("struct.error") ELSE Ok(b[1])

IsCont(x) == x >= 128 /\ x <= 191

\* bytes.decode('utf-8'), strict: the code points, or UnicodeDecodeError.
RECURSIVE Utf8From(_, _, _)
Utf8From(b, k, acc) ==
    IF k > Len(b) THEN Ok(acc)
    ELSE LET b0 == b[k]
             has1 == k + 1 <= Len(b)
             has2 == k + 2 <= Len(b)
             has3 == k + 3 <= Len(b)
         IN  IF b0 < 128 THEN Utf8From(b, k + 1, Append(acc, b0))
             ELSE IF b0 >= 194 /\ b0 <= 223 THEN
                 IF has1 /\ IsCont(b[k + 1])
                 THEN Utf8From(b, k + 2, Append(acc, (b0 - 192) * 64 + (b[k + 1] - 128)))
                 ELSE Raise("UnicodeDecodeError")
             ELSE IF b0 >= 224 /\ b0 <= 239 THEN
                 IF has2 /\ IsCont(b[k + 1]) /\ IsCont(b[k + 2])
                    /\ (b0 = 224 => b[k + 1] >= 160)
                    /\ (b0 = 237 => b[k + 1] <= 159)
                 THEN Utf8From(b, k + 3,
                          Append(acc, (b0 - 224) * 4096 + (b[k + 1] - 128) * 64
                                      + (b[k + 2] - 128)))
                 ELSE Raise("UnicodeDecodeError")
             ELSE IF b0 >= 240 /\ b0 <= 244 THEN
                 IF has3 /\ IsCont(b[k + 1]) /\ IsCont(b[k + 2]) /\ IsCont(b[k + 3])
                    /\ (b0 = 240 => b[k + 1] >= 144)
                    /\ (b0 = 244 => b[k + 1] <= 143)
                 THEN Utf8From(b, k + 4,
                          Append(acc, (b0 - 240) * 262144 + (b[k + 1] - 128) * 4096
                                      + (b[k + 2] - 128) * 64 + (b[k + 3] - 128)))
                 ELSE Raise("UnicodeDecodeError")
             ELSE Raise("UnicodeDecodeError")

Utf8Decode(b) == Utf8From(b, 1, <<>>)

\* BytesLe with the third field left in wire order.
BytesLe_TwoFields(b) ==
    Reverse(SubSeq(b, 1, 4)) \o Reverse(SubSeq(b, 5, 6)) \o SubSeq(b, 7, 16)

\* uuid.UUID(bytes=b).bytes_le: the first three fields byte-reversed.
BytesLe(b) ==
    Reverse(SubSeq(b, 1, 4)) \o Reverse(SubSeq(b, 5, 6))
        \o Reverse(SubSeq(b, 7, 8)) \o SubSeq(b, 9, 16)

\* ------------------------------------------------- conversion helpers
binary_to_string(binary_data, byte_offset, length) ==
    Utf8Decode(PySlice(binary_data, byte_offset, byte_offset + length))

binary_to_int(binary_data, byte_offset, length) ==
    StructUnpack_i(PySlice(binary_data, byte_offset, byte_offset + length))

binary_to_byte(binary_data, byte_offset, length) ==
    StructUnpack_B(PySlice(binary_data, byte_offset, byte_offset + length))

binary_to_hex(binary_data, byte_offset, length) ==
    Ok(JoinPairs(BytesHex(PySlice(binary_data, byte_offset, byte_offset + length))))

binary_to_guid(binary_data, byte_offset, length) ==
    LET b == PySlice(binary_data, byte_offset, byte_offset + length)
    IN  IF Len(b) # 16 THEN Raise("ValueError") ELSE Ok(BytesHex(BytesLe(b)))

\* ------------------------------------------------ predefined_values
section_types ==
    (<<"9", "8", "7", "6", "c", "c", "a", "d", "4", "7", "b", "4", "4", "b", "d", "b",
       "b", "6", "5", "e", "1", "6", "f", "1", "9", "3", "c", "4", "f", "3", "d", "b">>
        :> [name |-> "Processor Generic",
            error_record_reference |-> <<>>])
    @@
    (<<"d", "c", "3", "e", "a", "0", "b", "0", "a", "1", "4", "4", "4", "7", "9", "7",
       "b", "9", "5", "b", "5", "3", "f", "a", "2", "4", "2", "b", "6", "e", "1", "d">>
        :> [name |-> "Processor Specific - IA32/X64",
            error_record_reference |-> <<>>])
    @@
    (<<"e", "4", "2", "9", "f", "a", "f", "1", "3", "c", "b", "7", "1", "1", "d", "4",
       "b", "c", "a", "7", "0", "0", "8", "0", "c", "7", "3", "c", "8", "8", "8", "1">>
        :> [name |-> "Processor Specific - IPF",
            error_record_reference |-> <<>>])
    @@
    (<<"e", "1", "9", "e", "3", "d", "1", "6", "b", "c", "1", "1", "1", "1", "e", "4",
       "9", "c", "a", "a", "c", "2", "0", "5", "1", "d", "5", "d", "4", "6", "b", "0">>
        :> [name |-> "Processor Specific - ARM",
            error_record_reference |-> <<>>])
    @@
    (<<"a", "5", "b", "c", "1", "1", "1", "4", "6", "f", "6", "4", "4", "e", "d", "e",
       "b", "8", "6", "3", "3", "e", "8", "3", "e", "d", "7", "c", "8", "3", "b", "1">>
        :> [name |-> "Platform Memory",
            error_record_reference |-> <<>>])
    @@
    (<<"d", "9", "9", "5", "e", "9", "5", "4", "b", "b", "c", "1", "4", "3", "0", "f",
       "a", "d", "9", "1", "b", "4", "4", "d", "c", "b", "3", "c", "6", "f", "3", "5">>
        :> [name |-> "PCIe",
            error_record_reference |-> <<>>])
    @@
    (<<"8", "1", "2", "1", "2", "a", "9", "6", "0", "9", "e", "d", "4", "9", "9", "6",
       "9", "4", "7", "1", "8", "d", "7", "2", "9", "c", "8", "e", "6", "9", "e", "d">>
        :> [name |-> "Firmware Error Record Reference",
            error_record_reference |-> <<<<"firmware_error_record_type", 0, 1, "byte">>, <<"reserved", 1, 7, "hex">>, <<"record_identifier", 8, 8, "hex">>>>])
    @@
    (<<"c", "5", "7", "5", "3", "9", "6", "3", "3", "b", "8", "4", "4", "0", "9", "5",
       "b", "f", "7", "8", "e", "d", "d", "a", "d", "3", "f", "9", "c", "9", "d", "d">>
        :> [name |-> "PCI/PCI-X Bus",
            error_record_reference |-> <<>>])
    @@
    (<<"e", "b", "5", "e", "4", "6", "8", "5", "c", "a", "6", "6", "4", "7", "6", "9",
       "b", "6", "a", "2", "2", "6", "0", "6", "8", "b", "0", "0", "1", "3", "2", "6">>
        :> [name |-> "DMAr Generic",
            error_record_reference |-> <<>>])
    @@
    (<<"7", "1", "7", "6", "1", "d", "3", "7", "3", "2", "b", "2", "4", "5", "c", "d",
       "a", "7", "d", "0", "b", "0", "f", "e", "d", "d", "9", "3", "e", "8", "c", "f">>
        :> [name |-> "Intel® VT for Directed I/O specific DMAr section",
            error_record_reference |-> <<>>])
    @@
    (<<"0", "3", "6", "f", "8", "4", "e", "1", "7", "f", "3", "7", "4", "2", "8", "c",
       "a", "7", "9", "e", "5", "7", "5", "f", "d", "f", "a", "a", "8", "4", "e", "c">>
        :> [name |-> "IOMMU specific DMAr section",
            error_record_reference |-> <<>>])

error_severity ==
    <<"Recoverable (also called non-fatal uncorrected)", "Fatal", "Corrected",
      "Informational">>

\* A Python list subscript lst[n]: negative n counts from the end.
ListIndex(lst, n) ==
    IF n >= 0 /\ n < Len(lst) THEN Ok(lst[n + 1])
    ELSE IF n < 0 /\ n >= -Len(lst) THEN Ok(lst[n + Len(lst) + 1])
    ELSE Raise("IndexError")

\* predefined_values.error_severity[int(data)], as the print functions use it
severity_name(data) == ListIndex(error_severity, data)

\* The first exception raised while the results f[1], f[2], ... are evaluated
\* in order, or "none".
FirstExc(f) ==
    IF \A k \in 1..Len(f) : f[k].exc = "none" THEN "none"
    ELSE f[CHOOSE k \in 1..Len(f) :
               f[k].exc # "none" /\ \A j \in 1..(k - 1) : f[j].exc = "none"].exc

\* ------------------------------------------------------------ tables.py
\* f'{label}({n})'
Fmt(label, n) == [label |-> label, n |-> n]

severity_text == <<"Recoverable", "Fatal", "Correctable", "None">>

get_severity(data, start, length) ==
    LET severity == binary_to_int(data, start, length)
    IN  IF severity.exc # "none" THEN Raise(severity.exc)
        ELSE IF severity.val < Len(severity_text)
             THEN LET t == ListIndex(severity_text, severity.val)
                  IN  IF t.exc # "none" THEN Raise(t.exc)
                      ELSE Ok(Fmt(t.val, severity.val))
             ELSE Ok(Fmt("unknown", severity.val))

\* self.data is the dict the constructor built.
check_header_signature(data, signature) ==
    IF data.header_signature # signature THEN Raise("Exception") ELSE Ok(<<>>)

\* Bert with oem_revision read at offset 20 instead of 24.
Bert_OemRevisionAt20(data) ==
    LET f == << binary_to_string(data, 0, 4),
                binary_to_int(data, 4, 4),
                binary_to_byte(data, 8, 1),
                binary_to_byte(data, 9, 1),
                binary_to_string(data, 10, 6),
                binary_to_int(data, 20, 4),
                binary_to_string(data, 28, 4),
                binary_to_int(data, 32, 4),
                binary_to_int(data, 36, 4),
                binary_to_hex(data, 40, 8),
                binary_to_hex(data, 0, 48) >>
    IN  IF FirstExc(f) # "none" THEN Raise(FirstExc(f))
        ELSE Ok([header_signature |-> f[1].val,
                 lenght |-> f[2].val,
                 revision |-> f[3].val,
                 checksum |-> f[4].val,
                 oem_id |-> f[5].val,
                 oem_revision |-> f[6].val,
                 creator_id |-> f[7].val,
                 creator_revision |-> f[8].val,
                 boot_error_region_length |-> f[9].val,
                 boot_error_region |-> f[10].val,
                 hex |-> f[11].val])

\* Bert.__init__, `data` being the content read_table returned.
Bert(data) ==
    LET f == << binary_to_string(data, 0, 4),
                binary_to_int(data, 4, 4),
                binary_to_byte(data, 8, 1),
                binary_to_byte(data, 9, 1),
                binary_to_string(data, 10, 6),
                binary_to_int(data, 24, 4),
                binary_to_string(data, 28, 4),
                binary_to_int(data, 32, 4),
                binary_to_int(data, 36, 4),
                binary_to_hex(data, 40, 8),
                binary_to_hex(data, 0, 48) >>
    IN  IF FirstExc(f) # "none" THEN Raise(FirstExc(f))
        ELSE Ok([header_signature |-> f[1].val,
                 lenght |-> f[2].val,
                 revision |-> f[3].val,
                 checksum |-> f[4].val,
                 oem_id |-> f[5].val,
                 oem_revision |-> f[6].val,
                 creator_id |-> f[7].val,
                 creator_revision |-> f[8].val,
                 boot_error_region_length |-> f[9].val,
                 boot_error_region |-> f[10].val,
                 hex |-> f[11].val])

\* Hest.__init__, `data` being the content read_table returned.
Hest(data) ==
    LET f == << binary_to_string(data, 0, 4),
                binary_to_int(data, 4, 4),
                binary_to_byte(data, 8, 1),
                binary_to_byte(data, 9, 1),
                binary_to_string(data, 10, 6),
                binary_to_int(data, 24, 4),
                binary_to_string(data, 28, 4),
                binary_to_int(data, 32, 4),
                binary_to_int(data, 36, 4),
                binary_to_hex(data, 0, Len(data)) >>
    IN  IF FirstExc(f) # "none" THEN Raise(FirstExc(f))
        ELSE Ok([header_signature |-> f[1].val,
                 lenght |-> f[2].val,
                 revision |-> f[3].val,
                 checksum |-> f[4].val,
                 oem_id |-> f[5].val,
                 oem_revision |-> f[6].val,
                 creator_id |-> f[7].val,
                 creator_revision |-> f[8].val,
                 error_source_count |-> f[9].val,
                 error_source_structure |-> PySliceFrom(data, 40),
                 hex |-> f[10].val])

\* ------------------------------------------- bert_reader.py (the script)
get_bert_table(bert_table_binary) ==
    LET f == << binary_to_string(bert_table_binary, 0, 4),
                binary_to_int(bert_table_binary, 4, 4),
                binary_to_byte(bert_table_binary, 8, 1),
                binary_to_byte(bert_table_binary, 9, 1),
                binary_to_string(bert_table_binary, 10, 6),
                binary_to_int(bert_table_binary, 24, 4),
                binary_to_string(bert_table_binary, 28, 4),
                binary_to_int(bert_table_binary, 32, 4),
                binary_to_int(bert_table_binary, 36, 4),
                binary_to_hex(bert_table_binary, 40, 8),
                binary_to_hex(bert_table_binary, 0, 48) >>
    IN  IF FirstExc(f) # "none" THEN Raise(FirstExc(f))
        ELSE Ok([header_signature |-> f[1].val,
                 lenght |-> f[2].val,
                 revision |-> f[3].val,
                 checksum |-> f[4].val,
                 oem_id |-> f[5].val,
                 oem_revision |-> f[6].val,
                 creator_id |-> f[7].val,
                 creator_revision |-> f[8].val,
                 boot_error_region_length |-> f[9].val,
                 boot_error_region |-> f[10].val,
                 hex |-> f[11].val])

\* The header part of get_bert_table_data: the dict before the loop starts.
bert_table_data(b) ==
    LET f == << binary_to_int(b, 12, 4), binary_to_int(b, 16, 4) >>
    IN  IF FirstExc(f) # "none" THEN Raise(FirstExc(f))
        ELSE Ok([block_status |-> BytesHex(PySlice(b, 0, 4)),
                 raw_data_offset |-> BytesHex(PySlice(b, 4, 8)),
                 raw_data_lenght |-> BytesHex(PySlice(b, 8, 12)),
                 data_lenght |-> f[1].val,
                 error_severity |-> f[2].val,
                 generic_error_data_entries |-> f[2].val,
                 generic_error_data_entry |-> <<>>])

\* The dict one iteration of the loop builds from the remaining slice b.
data_entry(b) ==
    LET f == << binary_to_guid(b, 0, 16),
                binary_to_int(b, 16, 4),
                binary_to_int(b, 24, 4),
                binary_to_string(b, 44, 20) >>
    IN  IF FirstExc(f) # "none" THEN Raise(FirstExc(f))
        ELSE Ok([section_type |-> f[1].val,
                 error_severity |-> f[2].val,
                 revision |-> BytesHex(PySlice(b, 20, 22)),
                 validation_bits |-> BytesHex(PySlice(b, 22, 23)),
                 flags |-> BytesHex(PySlice(b, 23, 24)),
                 error_data_lenght |-> f[3].val,
                 fru_id |-> BytesHex(PySlice(b, 28, 44)),
                 fru_text |-> f[4].val,
                 timestamp |-> BytesHex(PySlice(b, 64, 72)),
                 generic_error_data |-> binary_to_hex(b, 72, f[3].val).val])

\* The section name print_error_data_entries shows for a decoded section_type.
section_name(data) ==
    IF data \in DOMAIN section_types THEN section_types[data].name ELSE "Unknown"

\* ------------------------------- bert_reader/bert_reader.py (the package)
\* The names bound at module level: the imports and the functions defined.
ModuleGlobals ==
    {"argparse", "os", "struct", "uuid", "sys", "Bert", "predefined_values",
     "get_bert_table", "get_bert_table_data", "get_bert_table_data_entry",
     "read_bert_table", "print_bert_table", "print_bert_table_data",
     "print_decoded_data_entries", "print_error_data_entries", "print_hex_data",
     "main"}

\* The module that `import predefined_values` binds in the package: the file
\* next to bert_reader/bert_reader.py, which defines error_severity only.
pkg_predefined_values == [error_severity |-> error_severity]

\* module.name: AttributeError unless the module defines the name.
ModuleAttr(module, name) ==
    IF name \in DOMAIN module THEN Ok(module[name]) ELSE Raise("AttributeError")

\* get_bert_table_data_entry(section_type, data_entry): the attribute lookup
\* predefined_values.section_types comes first; then the registry subscript
\* raises KeyError for a GUID that is no key, and globals()[kind] raises
\* KeyError for a kind that is no module-level name.
get_bert_table_data_entry(section_type, payload) ==
    LET registry == ModuleAttr(pkg_predefined_values, "section_types")
    IN  IF registry.exc # "none" THEN Raise(registry.exc)
        ELSE IF section_type \notin DOMAIN registry.val THEN Raise("KeyError")
        ELSE LET ref == registry.val[section_type].error_record_reference
             IN  IF ref = <<>> THEN Ok(<<>>)
                 ELSE IF ref[1][4] \notin ModuleGlobals THEN Raise("KeyError")
                 ELSE Raise("TypeError")

\* A global name used in a function body: NameError unless the module binds it.
GlobalName(name) == IF name \in ModuleGlobals THEN Ok(name) ELSE Raise("NameError")

\* get_bert_table_data of the package.  The dict display evaluates
\* binary_to_int(...) as its fourth value; the script's helpers are not part of
\* this module, so the name lookup decides the call.
pkg_get_bert_table_data(b) ==
    LET helper == GlobalName("binary_to_int")
    IN  IF helper.exc # "none" THEN Raise(helper.exc) ELSE bert_table_data(b)

\* ------------------------------------------------------------- inputs
\* The byte buffers the decoders are called with.  Pack_i is struct.pack('i', n),
\* used only to lay out input files.
Pack_i(n) ==
    LET m == IF n < 0 THEN (n + 2147483647) + 1 ELSE n
        top == IF n < 0 THEN (m \div 16777216) + 128 ELSE m \div 16777216
    IN  <<m % 256, (m \div 256) % 256, (m \div 65536) % 256, top>>

Rep(x, n) == [k \in 1..n |-> x]

Tag_BERT == <<66, 69, 82, 84>>
Tag_HEST == <<72, 69, 83, 84>>

ZeroGuid == Rep(0, 16)
\* 81212a96-09ed-4996-9471-8d729c8e69ed as firmware stores it
Wire_FirmwareErrorRecordReference ==
    <<150, 42, 33, 129, 237, 9, 150, 73, 148, 113, 141, 114, 156, 142, 105, 237>>
\* 9876ccad-47b4-4bdb-b65e-16f193c4f3db as firmware stores it
Wire_ProcessorGeneric ==
    <<173, 204, 118, 152, 180, 71, 219, 75, 182, 94, 22, 241, 147, 196, 243, 219>>

HexValue(c) == CHOOSE v \in 0..15 : HexChars[v + 1] = c

\* bytes.fromhex(h)
FromHex(h) == [k \in 1..(Len(h) \div 2) |-> 16 * HexValue(h[2 * k - 1]) + HexValue(h[2 * k])]

\* Position in the wire form of each byte of the canonical form of a GUID:
\* time_low, time_mid and time_hi_and_version are stored little-endian.
GuidWireOrder == <<4, 3, 2, 1, 6, 5, 8, 7, 9, 10, 11, 12, 13, 14, 15, 16>>

\* The 16 bytes firmware stores for the GUID whose canonical hex text is h.
WireBytes(h) == [k \in 1..16 |-> FromHex(h)[GuidWireOrder[k]]]

FruText == Rep(65, 20)
BadFruText == Rep(65, 19) \o <<255>>

EntryShapes ==
    << [guid |-> ZeroGuid, sev |-> 0, edl |-> 0, pay |-> <<>>, fru |-> FruText],
       [guid |-> Wire_FirmwareErrorRecordReference, sev |-> 1, edl |-> 20,
        pay |-> [k \in 1..20 |-> k], fru |-> FruText],
       [guid |-> Wire_ProcessorGeneric, sev |-> 2, edl |-> 4,
        pay |-> <<1, 2, 3, 4>>, fru |-> FruText],
       [guid |-> ZeroGuid, sev |-> 0, edl |-> 100, pay |-> <<1, 2>>, fru |-> FruText],
       [guid |-> ZeroGuid, sev |-> 0, edl |-> -72, pay |-> <<>>, fru |-> FruText],
       [guid |-> ZeroGuid, sev |-> 0, edl |-> -80,
        pay |-> [k \in 1..8 |-> 160 + k], fru |-> FruText],
       [guid |-> ZeroGuid, sev |-> 7, edl |-> 4, pay |-> <<5, 6, 7, 8>>, fru |-> FruText],
       [guid |-> ZeroGuid, sev |-> 0, edl |-> 4, pay |-> <<5, 6, 7, 8>>,
        fru |-> BadFruText],
       [guid |-> Wire_FirmwareErrorRecordReference, sev |-> 3, edl |-> 16,
        pay |-> [k \in 1..16 |-> 16 * k - 1], fru |-> FruText] >>

\* One Generic Error Data Entry as it lies in the file.
EntryBytes(s) ==
    s.guid \o Pack_i(s.sev) \o <<0, 3>> \o <<1>> \o <<0>> \o Pack_i(s.edl)
        \o Rep(0, 16) \o s.fru \o Rep(0, 8) \o s.pay

Layouts == UNION {[1..n -> 1..Len(EntryShapes)] : n \in 0..MaxEntries}

RegionBytes(layout) == Flatten([k \in 1..Len(layout) |-> EntryBytes(EntryShapes[layout[k]])])

\* A status block: 20-byte header, then the entries, the last `cut` bytes missing.
GesbBytes(data_length, severity, layout, cut) ==
    LET whole == <<1, 0, 0, 0>> \o Pack_i(0) \o Pack_i(0) \o Pack_i(data_length)
                     \o Pack_i(severity) \o RegionBytes(layout)
    IN  SubSeq(whole, 1, Max(Len(whole) - cut, 0))

GesbInputs ==
    { GesbBytes(IF exact THEN Len(RegionBytes(layout)) ELSE 0, n, layout, cut) :
        exact \in BOOLEAN, n \in {-1, 0, 1, 2, 3}, layout \in Layouts,
        cut \in {0, 40, 60} }
    \cup { <<>>, Rep(0, 14), Rep(0, 18) }

OemIds == { <<84, 69, 83, 84, 48, 48>>, <<84, 195, 169, 83, 84, 48>>,
            <<84, 69, 83, 84, 48, 255>> }
CreatorIds == { <<84, 69, 83, 84>>, <<128, 69, 83, 84>> }

HeaderBytes(sig, checksum, oem_id, oem_revision, creator_id, creator_revision) ==
    sig \o Pack_i(48) \o <<1>> \o <<checksum>> \o oem_id \o Rep(32, 8)
        \o Pack_i(oem_revision) \o creator_id \o Pack_i(creator_revision)
        \o Pack_i(8) \o Rep(170, 8)

TableInputs ==
    LET whole == { HeaderBytes(sig, ck, oem, orev, cid, crev) :
                     sig \in {Tag_BERT, Tag_HEST, <<66, 69, 82, 88>>, <<66, 69, 82, 255>>},
                     ck \in {0, 255}, oem \in OemIds, orev \in {1, -2},
                     cid \in CreatorIds, crev \in {1, 16909060} }
    IN  { h \o Rep(7, pad) : h \in whole, pad \in 0..MaxPad }
        \cup { SubSeq(h, 1, keep) : h \in whole, keep \in {0, 5, 9, 30, 44, 47} }

CursorBuffers ==
    { WireBytes(k) : k \in DOMAIN section_types }
    \cup { ZeroGuid, [k \in 1..16 |-> k - 1], <<>>, <<65>>, <<65, 66, 67, 68>>,
           <<84, 195, 169, 83, 84, 48>>, <<255, 255, 255, 255, 0>>, Rep(66, 20) }
CursorOffsets == {0, 1, 4, 15}
CursorLengths == {1, 4, 6, 16, 20}

SeverityValues == {-2147483647, -5, -4, -1, 0, 1, 2, 3, 4, 7, 2147483647}
SeverityInputs == { Pack_i(n) : n \in SeverityValues } \cup { <<>>, <<1, 0>> }

NoTable == [generic_error_data_entries |-> 0, generic_error_data_entry |-> <<>>]

\* ------------------------------------------------------------ state machine
Init ==
    /\ pc = "idle"
    /\ fn = "none"
    /\ arg = <<>>
    /\ ret = Ok(<<>>)
    /\ bin = <<>>
    /\ i = 0
    /\ table = NoTable

CanCall == pc = "idle"

\* The call of `name` with arguments `a` ends with result `r`.
Returns(name, a, r) ==
    /\ pc' = "done"
    /\ fn' = name
    /\ arg' = a
    /\ ret' = r
    /\ bin' = <<>>
    /\ i' = 0
    /\ table' = NoTable

Call_binary_to_string ==
    /\ CanCall
    /\ \E d \in CursorBuffers, o \in CursorOffsets, l \in CursorLengths :
           Returns("binary_to_string", [data |-> d, offset |-> o, length |-> l],
                  binary_to_string(d, o, l))

Call_binary_to_int ==
    /\ CanCall
    /\ \E d \in CursorBuffers, o \in CursorOffsets, l \in CursorLengths :
           Returns("binary_to_int", [data |-> d, offset |-> o, length |-> l],
                  binary_to_int(d, o, l))

Call_binary_to_byte ==
    /\ CanCall
    /\ \E d \in CursorBuffers, o \in CursorOffsets, l \in CursorLengths :
           Returns("binary_to_byte", [data |-> d, offset |-> o, length |-> l],
                  binary_to_byte(d, o, l))

Call_binary_to_hex ==
    /\ CanCall
    /\ \E d \in CursorBuffers, o \in CursorOffsets, l \in CursorLengths :
           Returns("binary_to_hex", [data |-> d, offset |-> o, length |-> l],
                  binary_to_hex(d, o, l))

Call_binary_to_guid ==
    /\ CanCall
    /\ \E d \in CursorBuffers, o \in CursorOffsets, l \in CursorLengths :
           Returns("binary_to_guid", [data |-> d, offset |-> o, length |-> l],
                  binary_to_guid(d, o, l))

Call_get_severity ==
    /\ CanCall
    /\ \E d \in SeverityInputs :
           Returns("get_severity", [data |-> d, offset |-> 0, length |-> 4],
                  get_severity(d, 0, 4))

Call_severity_name ==
    /\ CanCall
    /\ \E n \in SeverityValues :
           Returns("severity_name", [data |-> n], severity_name(n))

Call_Bert ==
    /\ CanCall
    /\ \E d \in TableInputs : Returns("Bert", [data |-> d], Bert(d))

Call_Hest ==
    /\ CanCall
    /\ \E d \in TableInputs : Returns("Hest", [data |-> d], Hest(d))

Call_get_bert_table ==
    /\ CanCall
    /\ \E d \in TableInputs : Returns("get_bert_table", [data |-> d], get_bert_table(d))

\* table.check_header_signature(tag) on a table object that was constructed.
Call_check_header_signature ==
    /\ pc = "done"
    /\ fn \in {"Bert", "Hest"}
    /\ ret.exc = "none"
    /\ \E tag \in {Tag_BERT, Tag_HEST} :
           Returns("check_header_signature",
                   [data |-> arg.data, table |-> fn, signature |-> tag],
                   check_header_signature(ret.val, tag))

Call_get_bert_table_data_entry ==
    /\ CanCall
    /\ \E g \in {ZeroGuid, Wire_FirmwareErrorRecordReference, Wire_ProcessorGeneric},
          p \in {<<>>, [k \in 1..16 |-> k], [k \in 1..20 |-> k]} :
           Returns("get_bert_table_data_entry",
                   [section_type |-> binary_to_guid(g, 0, 16).val, data |-> p],
                   get_bert_table_data_entry(binary_to_guid(g, 0, 16).val, p))

Call_pkg_get_bert_table_data ==
    /\ CanCall
    /\ \E d \in GesbInputs :
           Returns("pkg_get_bert_table_data", [data |-> d], pkg_get_bert_table_data(d))

\* get_bert_table_data of the script, up to the first test of the for loop.
get_bert_table_data_begin ==
    /\ CanCall
    /\ \E d \in GesbInputs :
        LET h == bert_table_data(d)
        IN  /\ fn' = "get_bert_table_data"
            /\ arg' = [data |-> d]
            /\ i' = 0
            /\ IF h.exc # "none"
               THEN /\ pc' = "done"
                    /\ ret' = Raise(h.exc)
                    /\ bin' = <<>>
                    /\ table' = NoTable
               ELSE /\ pc' = "loop"
                    /\ ret' = Ok(<<>>)
                    /\ bin' = PySliceFrom(d, 20)
                    /\ table' = h.val

\* One iteration of the for loop.
get_bert_table_data_iterate ==
    /\ pc = "loop"
    /\ i < table.generic_error_data_entries
    /\ LET e == data_entry(bin)
       IN  IF e.exc # "none"
           THEN /\ pc' = "done"
                /\ ret' = Raise(e.exc)
                /\ UNCHANGED <<fn, arg, bin, i, table>>
           ELSE /\ table' = [table EXCEPT !.generic_error_data_entry = Append(@, e.val)]
                /\ bin' = PySliceFrom(bin, 72 + e.val.error_data_lenght)
                /\ i' = i + 1
                /\ UNCHANGED <<pc, fn, arg, ret>>

\* range() is exhausted: return bert_table_data.
get_bert_table_data_return ==
    /\ pc = "loop"
    /\ i >= table.generic_error_data_entries
    /\ pc' = "done"
    /\ ret' = Ok(table)
    /\ UNCHANGED <<fn, arg, bin, i, table>>

\* print_error_data_entries on the entries a call of get_bert_table_data
\* returned: the section name and the severity name shown for each entry.
Call_print_error_data_entries ==
    /\ pc = "done"
    /\ fn = "get_bert_table_data"
    /\ ret.exc = "none"
    /\ LET es == ret.val.generic_error_data_entry
           sev == [k \in 1..Len(es) |-> severity_name(es[k].error_severity)]
       IN  Returns("print_error_data_entries", [data |-> es],
                   IF FirstExc(sev) # "none" THEN Raise(FirstExc(sev))
                   ELSE Ok([k \in 1..Len(es) |->
                              [section_type |-> section_name(es[k].section_type),
                               error_severity |-> sev[k].val]]))

NextCursor ==
    \/ Call_binary_to_string
    \/ Call_binary_to_int
    \/ Call_binary_to_byte
    \/ Call_binary_to_hex
    \/ Call_binary_to_guid
    \/ Call_get_severity
    \/ Call_severity_name

NextTable ==
    \/ Call_Bert
    \/ Call_Hest
    \/ Call_get_bert_table
    \/ Call_check_header_signature

NextGesb ==
    \/ get_bert_table_data_begin
    \/ get_bert_table_data_iterate
    \/ get_bert_table_data_return
    \/ Call_get_bert_table_data_entry
    \/ Call_pkg_get_bert_table_data
    \/ Call_print_error_data_entries

Next == NextCursor \/ NextTable \/ NextGesb

SpecCursor == Init /\ [][NextCursor]_vars
SpecTable == Init /\ [][NextTable]_vars
SpecGesb == Init /\ [][NextGesb]_vars
Spec == Init /\ [][Next]_vars

\* get_bert_table_data of the script as a function of its buffer: the for loop
\* run to its end, k iterations done out of n, t the dict and b the remaining
\* slice.
RECURSIVE entry_loop(_, _, _, _)
entry_loop(t, b, k, n) ==
    IF k >= n THEN Ok(t)
    ELSE LET e == data_entry(b)
         IN  IF e.exc # "none" THEN Raise(e.exc)
             ELSE entry_loop([t EXCEPT !.generic_error_data_entry = Append(@, e.val)],
                             PySliceFrom(b, 72 + e.val.error_data_lenght), k + 1, n)

get_bert_table_data(b) ==
    LET h == bert_table_data(b)
    IN  IF h.exc # "none" THEN Raise(h.exc)
        ELSE entry_loop(h.val, PySliceFrom(b, 20), 0, h.val.generic_error_data_entries)

\* ============================================================== properties
\* Helpers of the properties: the byte layouts read independently of the decoders.

\* The signed 32-bit little-endian integer at bytes k..k+3 (1-based) of d.
Int32At(d, k) ==
    d[k] + 256 * d[k + 1] + 65536 * d[k + 2]
        + 16777216 * (IF d[k + 3] > 127 THEN d[k + 3] - 256 ELSE d[k + 3])

\* The display hex of bytes b: "xx xx xx", position by position.
HexText(b) ==
    [p \in 1..(3 * Len(b) - 1) |->
        IF p % 3 = 0 THEN " "
        ELSE IF p % 3 = 1 THEN HexChars[(b[(p + 2) \div 3] \div 16) + 1]
        ELSE HexChars[(b[(p + 1) \div 3] % 16) + 1]]

\* The UTF-8 encoding of a sequence of code points.
Utf8Encode(cps) ==
    Flatten([k \in 1..Len(cps) |->
        LET c == cps[k]
        IN  IF c < 128 THEN <<c>>
            ELSE IF c < 2048 THEN <<192 + (c \div 64), 128 + (c % 64)>>
            ELSE IF c < 65536
                 THEN <<224 + (c \div 4096), 128 + ((c \div 64) % 64), 128 + (c % 64)>>
            ELSE <<240 + (c \div 262144), 128 + ((c \div 4096) % 64),
                   128 + ((c \div 64) % 64), 128 + (c % 64)>>])

ValidUtf8(b) == Utf8Decode(b).exc = "none"

\* The header was decoded: the call is in the loop or has left it.
InFramingLoop ==
    fn = "get_bert_table_data" /\ pc \in {"loop", "done"} /\ Len(arg.data) >= 20

\* The entry region of the buffer get_bert_table_data was called with.
Region == IF Len(arg.data) > 20 THEN SubSeq(arg.data, 21, Len(arg.data)) ELSE <<>>

Issued == table.generic_error_data_entry

\* Sum of 72 + error_data_length over the first k entries issued.
RECURSIVE ConsumedBy(_)
ConsumedBy(k) ==
    IF k = 0 THEN 0 ELSE ConsumedBy(k - 1) + 72 + Issued[k].error_data_lenght

\* The number of well-formed entries that exactly fill r, or -1 if r is not such
\* a sequence: each entry is a 72-byte header with valid fru_text and
\* error_data_length >= 0, followed by error_data_length payload bytes.
RECURSIVE WellFormedEntries(_)
WellFormedEntries(r) ==
    IF r = <<>> THEN 0
    ELSE IF Len(r) < 72 THEN -1
    ELSE LET edl == Int32At(r, 25)
         IN  IF edl < 0 \/ 72 + edl > Len(r) \/ ~ValidUtf8(SubSeq(r, 45, 64)) THEN -1
             ELSE LET rest == WellFormedEntries(SubSeq(r, 73 + edl, Len(r)))
                  IN  IF rest < 0 THEN -1 ELSE 1 + rest

Key_FirmwareErrorRecordReference ==
    CHOOSE k \in DOMAIN section_types :
        section_types[k].name = "Firmware Error Record Reference"

\* C1: for a status block whose entry region is k >= 0 well-formed entries that
\* exactly fill data_length bytes, get_bert_table_data returns, with exactly k
\* entries, having consumed exactly data_length bytes of the region.
C1_ExactFillReturnsAllEntries ==
    ( /\ pc = "done"
      /\ fn = "get_bert_table_data"
      /\ Len(arg.data) >= 20
      /\ WellFormedEntries(Region) >= 0
      /\ Int32At(arg.data, 13) = Len(Region) )
    => /\ ret.exc = "none"
       /\ Len(ret.val.generic_error_data_entry) = WellFormedEntries(Region)
       /\ Len(Region) - Len(bin) = Int32At(arg.data, 13)

\* C2: when the entry header at the front of the remaining slice declares an
\* error_data_length with 72 + error_data_length larger than the slice, the
\* iteration ends the call with a failure and issues no entry.
C2_OverrunEndsInFailure ==
    [][ ( /\ pc = "loop"
          /\ fn = "get_bert_table_data"
          /\ i < table.generic_error_data_entries
          /\ Len(bin) >= 28
          /\ 72 + Int32At(bin, 25) > Len(bin) )
        => ( /\ pc' = "done"
             /\ ret'.exc # "none"
             /\ table'.generic_error_data_entry = table.generic_error_data_entry )
      ]_vars

\* C3: decoding an entry whose section_type is no key of the registry does not
\* fail; the entry is issued with its payload as hex text, its section name is
\* "Unknown", and the loop goes on with the bytes that follow it.
C3_UnknownSectionTypeIsNoFailure ==
    /\ ( /\ pc = "done"
         /\ fn = "get_bert_table_data_entry"
         /\ arg.section_type \notin DOMAIN section_types )
       => ret.exc = "none"
    /\ ( /\ pc = "done"
         /\ fn = "print_error_data_entries"
         /\ ret.exc = "none" )
       => \A k \in 1..Len(arg.data) :
              arg.data[k].section_type \notin DOMAIN section_types
                  => ret.val[k].section_type = "Unknown"

\* C4: the severity mapping sends 0..3 to the four names and every other signed
\* 32-bit value N to "unknown(N)"; it never fails.
C4_SeverityMappingTotal ==
    /\ ( /\ pc = "done"
         /\ fn = "get_severity"
         /\ Len(arg.data) = 4 )
       => /\ ret.exc = "none"
          /\ ret.val.n = Int32At(arg.data, 1)
          /\ IF ret.val.n \in 0..3
             THEN ret.val.label = severity_text[ret.val.n + 1]
             ELSE ret.val.label = "unknown"
    /\ ( /\ pc = "done"
         /\ fn = "severity_name" )
       => /\ ret.exc = "none"
          /\ arg.data \in 0..3 => ret.val = error_severity[arg.data + 1]
          /\ arg.data \notin 0..3 => ret.val \notin {error_severity[k] : k \in 1..4}

\* C5: decoding as BERT (HEST) a buffer whose first four bytes are not "BERT"
\* ("HEST") never returns a decoded record.
C5_WrongSignatureIsRejected ==
    /\ ( /\ pc = "done"
         /\ fn \in {"Bert", "get_bert_table"}
         /\ PySlice(arg.data, 0, 4) # Tag_BERT )
       => ret.exc # "none"
    /\ ( /\ pc = "done"
         /\ fn = "Hest"
         /\ PySlice(arg.data, 0, 4) # Tag_HEST )
       => ret.exc # "none"

\* C6: for the Firmware Error Record Reference section type the decoded payload
\* is the ordered mapping firmware_error_record_type (byte at 0), reserved (hex
\* of bytes 1..7), record_identifier (hex of bytes 8..15) of the payload.
C6_FirmwareErrorRecordIsFieldMapping ==
    ( /\ pc = "done"
      /\ fn = "get_bert_table_data_entry"
      /\ arg.section_type = Key_FirmwareErrorRecordReference
      /\ Len(arg.data) >= 16 )
    => /\ ret.exc = "none"
       /\ ret.val = << <<"firmware_error_record_type", arg.data[1]>>,
                       <<"reserved", HexText(SubSeq(arg.data, 2, 8))>>,
                       <<"record_identifier", HexText(SubSeq(arg.data, 9, 16))>> >>

\* What C7 says of a returned BERT record r decoded from the buffer d.
BertFieldsMatch(d, r) ==
    /\ r.header_signature = Tag_BERT
    /\ r.lenght = Int32At(d, 5)
    /\ r.revision = d[9]
    /\ r.checksum = d[10]
    /\ Utf8Encode(r.oem_id) = SubSeq(d, 11, 16)
    /\ r.oem_revision = Int32At(d, 25)
    /\ Utf8Encode(r.creator_id) = SubSeq(d, 29, 32)
    /\ r.creator_revision = Int32At(d, 33)
    /\ r.boot_error_region_length = Int32At(d, 37)
    /\ r.boot_error_region = HexText(SubSeq(d, 41, 48))
    /\ r.hex = HexText(SubSeq(d, 1, 48))

IsBertBuffer ==
    /\ pc = "done"
    /\ fn \in {"Bert", "get_bert_table"}
    /\ Len(arg.data) >= 48
    /\ SubSeq(arg.data, 1, 4) = Tag_BERT

\* C7 as stated: every buffer of at least 48 bytes with signature "BERT" decodes
\* to a record whose fields are the bytes at the offsets of the layout table.
C7_EveryBertBufferDecodes ==
    IsBertBuffer => (ret.exc = "none" /\ BertFieldsMatch(arg.data, ret.val))

\* C7 as amended: every buffer of at least 48 bytes with signature "BERT" whose
\* oem_id bytes (10..15) and creator_id bytes (28..31) are valid UTF-8 decodes
\* to a record whose fields are the bytes at the offsets of the layout table,
\* with the hex dump covering exactly bytes 0..47.
C7_TextValidBertBufferDecodes ==
    ( /\ IsBertBuffer
      /\ ValidUtf8(SubSeq(arg.data, 11, 16))
      /\ ValidUtf8(SubSeq(arg.data, 29, 32)) )
    => (ret.exc = "none" /\ BertFieldsMatch(arg.data, ret.val))

\* A BERT buffer longer than its header, with a two-byte character in oem_id
\* and a negative oem_revision, was decoded by the Bert class.
C7_Witness ==
    /\ IsBertBuffer
    /\ fn = "Bert"
    /\ Len(arg.data) > 48
    /\ ret.exc = "none"
    /\ ret.val.oem_id = <<84, 233, 83, 84, 48>>
    /\ ret.val.oem_revision = -2

\* C8: for 16 wire-order bytes b, binary_to_guid returns the hex of
\* b[3],b[2],b[1],b[0], b[5],b[4], b[7],b[6], b[8..15]; swapping the result
\* again gives back b; the wire bytes of a registry key decode to that key.
C8_GuidByteSwap ==
    ( /\ pc = "done"
      /\ fn = "binary_to_guid"
      /\ arg.length = 16
      /\ arg.offset + 16 <= Len(arg.data) )
    => LET b == SubSeq(arg.data, arg.offset + 1, arg.offset + 16)
       IN  /\ ret.exc = "none"
           /\ Len(ret.val) = 32
           /\ \A k \in 1..16 :
                  /\ ret.val[2 * k - 1] = HexChars[(b[GuidWireOrder[k]] \div 16) + 1]
                  /\ ret.val[2 * k] = HexChars[(b[GuidWireOrder[k]] % 16) + 1]
           /\ FromHex(binary_to_guid(FromHex(ret.val), 0, 16).val) = b
           /\ \A key \in DOMAIN section_types : b = WireBytes(key) => ret.val = key

\* The wire bytes of Firmware Error Record Reference were decoded to its key.
C8_Witness ==
    /\ pc = "done"
    /\ fn = "binary_to_guid"
    /\ arg.data = Wire_FirmwareErrorRecordReference
    /\ arg.offset = 0
    /\ arg.length = 16
    /\ ret.val = Key_FirmwareErrorRecordReference

\* C9: an accessor called with offset + length beyond the buffer size fails; it
\* returns no value built from fewer bytes than requested.
C9_AccessorOutOfBoundsFails ==
    ( /\ pc = "done"
      /\ fn \in {"binary_to_string", "binary_to_int", "binary_to_byte",
                 "binary_to_hex", "binary_to_guid"}
      /\ arg.offset + arg.length > Len(arg.data) )
    => ret.exc # "none"

\* C10: in every state of the framing loop the bytes consumed so far, the sum of
\* 72 + error_data_length over the entries issued, are at most
\* min(data_length, bytes after the header), and every entry was issued with at
\* least 72 bytes of the region remaining.
C10_ConsumedWithinRegion ==
    InFramingLoop
    => /\ ConsumedBy(Len(Issued)) <= Min(table.data_lenght, Len(Region))
       /\ \A k \in 1..Len(Issued) : Len(Region) - ConsumedBy(k - 1) >= 72

\* C11: when the loop stops on a slice too short for the next entry, the caller
\* receives, with the error, the entries decoded before it, unchanged and in
\* buffer order.
C11_PartialEntriesReturnedWithError ==
    ( /\ pc = "done"
      /\ fn = "get_bert_table_data"
      /\ Len(arg.data) >= 20
      /\ ret.exc \in {"ValueError", "struct.error"} )
    => ret.val = Issued

\* The buffer d with its error_severity field, bytes [16:20], set to s.
WithSeverity(d, s) == SubSeq(d, 1, 16) \o Pack_i(s) \o SubSeq(d, 21, Len(d))

\* The function and the steps of the loop agree on every finished call.
LoopAgreesWithFunction ==
    (pc = "done" /\ fn = "get_bert_table_data") => ret = get_bert_table_data(arg.data)

\* C12: data_length is the integer at bytes [12:16] and error_severity the one
\* at bytes [16:20], and the number of entries returned does not depend on the
\* error_severity field: the same buffer with any other severity value at
\* offset 16 decodes to the same number of entries.
C12_EntryCountIndependentOfSeverity ==
    ( /\ pc = "done"
      /\ fn = "get_bert_table_data"
      /\ Len(arg.data) >= 20
      /\ ret.exc = "none" )
    => /\ ret.val.data_lenght = Int32At(arg.data, 13)
       /\ ret.val.error_severity = Int32At(arg.data, 17)
       /\ \A s \in 0..3 :
              LET other == get_bert_table_data(WithSeverity(arg.data, s))
              IN  other.exc = "none"
                  => Len(other.val.generic_error_data_entry)
                         = Len(ret.val.generic_error_data_entry)

\* C13: every iteration of the entry-framing loop that issues an entry leaves a
\* remaining slice at least 72 bytes shorter than the one it started from (empty
\* when fewer than 72 bytes were left), whatever the sign of error_data_length,
\* so the loop makes progress and no bytes are decoded as two entries.
C13_IterationShrinksSliceBy72 ==
    [][ (pc = "loop" /\ i' = i + 1) => Len(bin') <= Max(Len(bin) - 72, 0) ]_vars

====
